---------------------------- MODULE Spec2Model ----------------------------
(***************************************************************************)
(* A model of EbayScraper.py: one run of get_item_info (read the input,    *)
(* validate the condition, build the search URL, fetch the page, extract   *)
(* prices and shipping costs, average them, print the record) and the pure *)
(* functions it is built from.                                             *)
(*                                                                         *)
(* Representation.  A Python str is a sequence of one-character strings,   *)
(* so that lower(), quote(), replace() and the regular-expression search   *)
(* are computed character by character.  A Python float is an exact        *)
(* rational [n, d] in lowest terms; None is the value VNone.  An unset     *)
(* local variable is <<>> and a set one is <<value>>.                      *)
(***************************************************************************)
EXTENDS Integers, Sequences, FiniteSets, TLC

VARIABLES
    pc,           \* position of the run, or of the single call of a pure function
    stdin,        \* the lines input() will read: <<item line, condition line>>
    item_name,    \* get_item_info: item_name (the query of _construct_url)
    condition,    \* get_item_info: condition, lower-cased (the condition of _construct_url)
    country,      \* get_item_info: country (the country of _construct_url)
    url,          \* the value _construct_url returned
    requests,     \* number of urlopen calls made so far
    soup,         \* the parsed document _get_html returned
    data,         \* the dict _parse_prices returned
    result,       \* the dict get_item_info returned
    stdout,       \* what print() has written
    error,        \* the exception that ended the run or the call
    string,       \* _parse_raw_price: its argument
    parsed_price, \* _parse_raw_price: its return value
    number_list,  \* _average: its argument
    mean          \* _average: its return value

vars == <<pc, stdin, item_name, condition, country, url, requests, soup, data,
          result, stdout, error, string, parsed_price, number_list, mean>>

-----------------------------------------------------------------------------
(* Bounds of the model.                                                    *)

\* longest query text enumerated over QueryAlphabet
MaxQuery == 2
\* longest raw text enumerated over TextAlphabet
MaxText == 4
\* longest list handed to _average
MaxList == 3
\* most elements in a document handed to _parse_prices alone
MaxElems == 3
\* most elements in the document a run fetches
MaxRunElems == 2

-----------------------------------------------------------------------------
(* Python str and list operations.                                         *)

Unset == <<>>
Some(x) == <<x>>

\* all sequences over S of length at most n
SeqsUpTo(S, n) == UNION {[1..k -> S] : k \in 0..n}

\* s[i:] of Python, for a 1-based i
Drop(s, i) == SubSeq(s, i, Len(s))

\* s.startswith(p) at position i
StartsAt(s, p, i) ==
    /\ i + Len(p) - 1 <= Len(s)
    /\ SubSeq(s, i, i + Len(p) - 1) = p

\* str.replace(old, new), old non-empty: leftmost non-overlapping occurrences
RECURSIVE Replace(_, _, _)
Replace(s, old, new) ==
    IF s = <<>> THEN <<>>
    ELSE IF StartsAt(s, old, 1)
         THEN new \o Replace(Drop(s, Len(old) + 1), old, new)
         ELSE <<Head(s)>> \o Replace(Tail(s), old, new)

\* sep.join(parts)
RECURSIVE Join(_, _)
Join(parts, sep) ==
    IF parts = <<>> THEN <<>>
    ELSE IF Len(parts) = 1 THEN parts[1]
         ELSE parts[1] \o sep \o Join(Tail(parts), sep)

UpperLetters == <<"A", "B", "C", "D", "E", "F", "G", "H", "I", "J", "K", "L", "M", "N", "O", "P", "Q", "R", "S", "T", "U", "V", "W", "X", "Y", "Z">>
LowerLetters == <<"a", "b", "c", "d", "e", "f", "g", "h", "i", "j", "k", "l", "m", "n", "o", "p", "q", "r", "s", "t", "u", "v", "w", "x", "y", "z">>

\* str.lower() on one character
LowerChar(c) ==
    IF \E i \in 1..Len(UpperLetters) : UpperLetters[i] = c
    THEN LowerLetters[CHOOSE i \in 1..Len(UpperLetters) : UpperLetters[i] = c]
    ELSE c

\* Faulty variant of Lower: the condition is compared as typed.
LowerOmitted(s) == s

\* str.lower()
Lower(s) == [i \in 1..Len(s) |-> LowerChar(s[i])]

\* a dict is the sequence of its <<key, value>> items, in insertion order
HasKey(d, k) == \E i \in 1..Len(d) : d[i][1] = k
Get(d, k) == d[CHOOSE i \in 1..Len(d) : d[i][1] = k][2]
Keys(d) == [i \in 1..Len(d) |-> d[i][1]]

-----------------------------------------------------------------------------
(* The two lookup tables.                                                  *)

COUNTRY_DICT ==
    << <<<<"a", "u">>, <<".", "c", "o", "m", ".", "a", "u">>>>,
       <<<<"a", "t">>, <<".", "a", "t">>>>,
       <<<<"b", "e">>, <<".", "b", "e">>>>,
       <<<<"c", "a">>, <<".", "c", "a">>>>,
       <<<<"c", "h">>, <<".", "c", "h">>>>,
       <<<<"d", "e">>, <<".", "d", "e">>>>,
       <<<<"e", "s">>, <<".", "e", "s">>>>,
       <<<<"f", "r">>, <<".", "f", "r">>>>,
       <<<<"h", "k">>, <<".", "c", "o", "m", ".", "h", "k">>>>,
       <<<<"i", "e">>, <<".", "i", "e">>>>,
       <<<<"i", "t">>, <<".", "i", "t">>>>,
       <<<<"m", "y">>, <<".", "c", "o", "m", ".", "m", "y">>>>,
       <<<<"n", "l">>, <<".", "n", "l">>>>,
       <<<<"n", "z">>, <<".", "c", "o", ".", "n", "z">>>>,
       <<<<"p", "h">>, <<".", "p", "h">>>>,
       <<<<"p", "l">>, <<".", "p", "l">>>>,
       <<<<"s", "g">>, <<".", "c", "o", "m", ".", "s", "g">>>>,
       <<<<"u", "k">>, <<".", "c", "o", ".", "u", "k">>>>,
       <<<<"u", "s">>, <<".", "c", "o", "m">>>> >>

CONDITION_DICT ==
    << <<<<"a", "l", "l">>, <<>> >>,
       <<<<"n", "e", "w">>, <<"&", "L", "H", "_", "I", "t", "e", "m", "C", "o", "n", "d", "i", "t", "i", "o", "n", "=", "1", "0", "0", "0">>>>,
       <<<<"o", "p", "e", "n", "e", "d">>, <<"&", "L", "H", "_", "I", "t", "e", "m", "C", "o", "n", "d", "i", "t", "i", "o", "n", "=", "1", "5", "0", "0">>>>,
       <<<<"r", "e", "f", "u", "r", "b", "i", "s", "h", "e", "d">>, <<"&", "L", "H", "_", "I", "t", "e", "m", "C", "o", "n", "d", "i", "t", "i", "o", "n", "=", "2", "5", "0", "0">>>>,
       <<<<"u", "s", "e", "d">>, <<"&", "L", "H", "_", "I", "t", "e", "m", "C", "o", "n", "d", "i", "t", "i", "o", "n", "=", "3", "0", "0", "0">>>> >>

-----------------------------------------------------------------------------
(* _construct_url.                                                         *)

\* urllib.parse.quote keeps these characters (its always-safe set and safe='/')
QuoteSafe ==
    {UpperLetters[i] : i \in 1..Len(UpperLetters)}
        \cup {LowerLetters[i] : i \in 1..Len(LowerLetters)}
        \cup {"0", "1", "2", "3", "4", "5", "6", "7", "8", "9"}
        \cup {"_", ".", "-", "~", "/"}

\* the two hexadecimal digits of the ASCII characters quote escapes
HexOf(c) ==
    CASE c = " " -> <<"2", "0">>
      [] c = "#" -> <<"2", "3">>
      [] c = "$" -> <<"2", "4">>
      [] c = "%" -> <<"2", "5">>
      [] c = "&" -> <<"2", "6">>
      [] c = "+" -> <<"2", "B">>
      [] c = "," -> <<"2", "C">>
      [] c = ":" -> <<"3", "A">>
      [] c = "=" -> <<"3", "D">>
      [] c = "?" -> <<"3", "F">>

\* urllib.parse.quote(query)
RECURSIVE Quote(_)
Quote(s) ==
    IF s = <<>> THEN <<>>
    ELSE (IF Head(s) \in QuoteSafe THEN <<Head(s)>> ELSE <<"%">> \o HexOf(Head(s)))
             \o Quote(Tail(s))

\* the outcome of a call: the value returned, or the exception raised
Returned(v) == [exc |-> Unset, value |-> Some(v)]
Raised(type, arg) == [exc |-> Some([type |-> type, arg |-> arg]), value |-> Unset]

\* Faulty variant of parsed_query: the %20 of quote is left in place.
parsed_query_keeping_escapes(query) == Quote(query)

\* line 79: parsed_query
parsed_query(query) == Replace(Quote(query), <<"%", "2", "0">>, <<"+">>)

\* Faulty variant of base_url: the site of the default country, whatever the country.
base_url_of_default_country(c) ==
    <<"h", "t", "t", "p", "s", ":", "/", "/", "w", "w", "w", ".", "e", "b", "a", "y">> \o Get(COUNTRY_DICT, <<"u", "s">>) \o <<"/", "s", "c", "h", "/", "i", ".", "h", "t", "m", "l", "?", "_", "f", "r", "o", "m", "=", "R", "4", "0", "&", "_", "n", "k", "w", "=">>

\* line 78: base_url
base_url(c) == <<"h", "t", "t", "p", "s", ":", "/", "/", "w", "w", "w", ".", "e", "b", "a", "y">> \o Get(COUNTRY_DICT, c) \o <<"/", "s", "c", "h", "/", "i", ".", "h", "t", "m", "l", "?", "_", "f", "r", "o", "m", "=", "R", "4", "0", "&", "_", "n", "k", "w", "=">>

\* Variant of construct_url that validates the condition as get_item_info does.
construct_url_validating(query, c, cond) ==
    IF ~HasKey(COUNTRY_DICT, c) THEN Raised("KeyError", c)
    ELSE IF ~HasKey(CONDITION_DICT, cond) THEN Raised("ValueError", cond)
    ELSE Returned(base_url(c) \o parsed_query(query) \o Get(CONDITION_DICT, cond))

\* _construct_url(query, country, condition): the subscripts are evaluated in
\* the order of lines 78 and 80, and a missing key raises KeyError
construct_url(query, c, cond) ==
    IF ~HasKey(COUNTRY_DICT, c) THEN Raised("KeyError", c)
    ELSE IF ~HasKey(CONDITION_DICT, cond) THEN Raised("KeyError", cond)
    ELSE Returned(base_url(c) \o parsed_query(query) \o Get(CONDITION_DICT, cond))

-----------------------------------------------------------------------------
(* Numbers: exact rationals in lowest terms, and None.                     *)

RECURSIVE GCD(_, _)
GCD(a, b) == IF b = 0 THEN a ELSE GCD(b, a % b)

\* the number n/d (n >= 0, d > 0)
Num(n, d) == LET g == GCD(n, d) IN [isNone |-> FALSE, n |-> n \div g, d |-> d \div g]
VNone == [isNone |-> TRUE, n |-> 0, d |-> 1]
Zero == Num(0, 1)

Plus(a, b) == Num(a.n * b.d + b.n * a.d, a.d * b.d)
DivInt(a, k) == Num(a.n, a.d * k)

\* sum(valid_numbers)
RECURSIVE Sum(_)
Sum(s) == IF s = <<>> THEN Zero ELSE Plus(Head(s), Sum(Tail(s)))

Digits == <<"0", "1", "2", "3", "4", "5", "6", "7", "8", "9">>
IsDigit(c) == \E i \in 1..Len(Digits) : Digits[i] = c
DigitVal(c) == (CHOOSE i \in 1..Len(Digits) : Digits[i] = c) - 1

\* int() of a string of digits
RECURSIVE IntOf(_)
IntOf(ds) ==
    IF ds = <<>> THEN 0 ELSE 10 * IntOf(SubSeq(ds, 1, Len(ds) - 1)) + DigitVal(ds[Len(ds)])

RECURSIVE Pow10(_)
Pow10(k) == IF k = 0 THEN 1 ELSE 10 * Pow10(k - 1)

\* float() of a string matched by \d+(\.\d+)?
Float(m) ==
    IF \E i \in 1..Len(m) : m[i] = "."
    THEN LET p == CHOOSE i \in 1..Len(m) : m[i] = "."
             frac == Drop(m, p + 1)
         IN  Num(IntOf(SubSeq(m, 1, p - 1) \o frac), Pow10(Len(frac)))
    ELSE Num(IntOf(m), 1)

-----------------------------------------------------------------------------
(* _parse_raw_price.                                                       *)

\* the last index of the run of digits that starts at i
RECURSIVE DigitRunEnd(_, _)
DigitRunEnd(s, i) ==
    IF i + 1 <= Len(s) /\ IsDigit(s[i + 1]) THEN DigitRunEnd(s, i + 1) ELSE i

\* re.search(r'(\d+(\.\d+)?)', s): Unset when nothing matches, else the text
\* matched: the leftmost digit, the longest run of digits from it, and then a
\* period with the longest run of digits after it when a digit follows the period
Search(s) ==
    IF ~\E i \in 1..Len(s) : IsDigit(s[i]) THEN Unset
    ELSE LET i == CHOOSE k \in 1..Len(s) :
                      IsDigit(s[k]) /\ \A h \in 1..(k - 1) : ~IsDigit(s[h])
             j == DigitRunEnd(s, i)
         IN  IF j + 2 <= Len(s) /\ s[j + 1] = "." /\ IsDigit(s[j + 2])
             THEN Some(SubSeq(s, i, DigitRunEnd(s, j + 2)))
             ELSE Some(SubSeq(s, i, j))

\* Faulty variant of parse_raw_price: commas are not turned into periods.
parse_raw_price_keeping_commas(str) ==
    LET m == Search(str)
    IN  IF m # Unset THEN Float(m[1]) ELSE VNone

\* _parse_raw_price(string)
parse_raw_price(str) ==
    LET m == Search(Replace(str, <<",">>, <<".">>))
    IN  IF m # Unset THEN Float(m[1]) ELSE VNone

-----------------------------------------------------------------------------
(* _average and the rounding of get_item_info.                             *)

IsValid(num) == ~num.isNone

\* Faulty variant of average: an absent entry counts as a zero.
average_counting_absent(list) ==
    IF list # <<>>
    THEN DivInt(Sum(SelectSeq(list, IsValid)), Len(list))
    ELSE Zero

\* _average(number_list)
average(list) ==
    IF list # <<>>
    THEN LET valid_numbers == SelectSeq(list, IsValid)
         IN  IF valid_numbers # <<>>
             THEN DivInt(Sum(valid_numbers), Len(valid_numbers))
             ELSE Zero
    ELSE Zero

\* round(x, 2): the multiples of 1/100 nearest to x.  A float halfway between
\* two of them in decimal lies to one side or the other in binary, so a tie
\* may round either way
Round2(x) ==
    LET f == (x.n * 100) \div x.d
        r == (x.n * 100) % x.d
    IN  IF 2 * r < x.d THEN {Num(f, 100)}
        ELSE IF 2 * r > x.d THEN {Num(f + 1, 100)}
        ELSE {Num(f, 100), Num(f + 1, 100)}

\* Faulty variant of Record: the shipping is left out of the total.
RecordWithoutShipping(avg_price, avg_shipping, total) ==
    [price |-> avg_price, shipping |-> avg_shipping, total |-> avg_price]

\* line 64: the dict get_item_info returns
Record(avg_price, avg_shipping, total) ==
    [price |-> avg_price, shipping |-> avg_shipping, total |-> total]

\* lines 60-64: the records get_item_info can return for the parsed data
ItemInfo(d) ==
    UNION {UNION {{Record(avg_price, avg_shipping, total) :
                       total \in Round2(Plus(avg_price, avg_shipping))} :
                  avg_shipping \in Round2(average(d.shipping_list))} :
           avg_price \in Round2(average(d.price_list))}

-----------------------------------------------------------------------------
(* The document and _parse_prices.                                         *)

\* An element of the document is [class, text]: the tokens of its class
\* attribute and its text.
Whitespace == {" "}

\* get_text(strip=True)
RECURSIVE LStrip(_)
LStrip(s) == IF s # <<>> /\ Head(s) \in Whitespace THEN LStrip(Tail(s)) ELSE s
RECURSIVE RStrip(_)
RStrip(s) ==
    IF s # <<>> /\ s[Len(s)] \in Whitespace THEN RStrip(SubSeq(s, 1, Len(s) - 1)) ELSE s
get_text(el) == RStrip(LStrip(el.text))

\* find_all(class_=sel): a selector of one class matches an element that
\* carries that class; a selector of several matches the exact attribute
MatchesClass(el, sel) ==
    IF Len(sel) = 1 THEN \E i \in 1..Len(el.class) : el.class[i] = sel[1]
    ELSE el.class = sel

PriceClass == <<"s-item__price">>
ShippingClass == <<"s-item__shipping", "s-item__logisticsCost">>

IsPrice(el) == MatchesClass(el, PriceClass)
IsShipping(el) == MatchesClass(el, ShippingClass)

\* line 105
raw_price_list(doc) ==
    LET found == SelectSeq(doc, IsPrice) IN [i \in 1..Len(found) |-> get_text(found[i])]
\* line 106
raw_shipping_list(doc) ==
    LET found == SelectSeq(doc, IsShipping) IN [i \in 1..Len(found) |-> get_text(found[i])]

NonEmpty(s) == s # <<>>

\* Faulty variant of price_list: an empty price text is parsed like any other.
price_list_keeping_empty(doc) ==
    LET raw == raw_price_list(doc)
    IN  [i \in 1..Len(raw) |-> parse_raw_price(raw[i])]

\* line 108
price_list(doc) ==
    LET kept == SelectSeq(raw_price_list(doc), NonEmpty)
    IN  [i \in 1..Len(kept) |-> parse_raw_price(kept[i])]
\* line 109
shipping_list(doc) ==
    LET raw == raw_shipping_list(doc)
    IN  [i \in 1..Len(raw) |-> IF raw[i] # <<>> THEN parse_raw_price(raw[i]) ELSE Zero]

\* _parse_prices(soup)
parse_prices(doc) == [price_list |-> price_list(doc), shipping_list |-> shipping_list(doc)]

-----------------------------------------------------------------------------
(* The inputs the model enumerates.                                        *)

\* item names typed at the first prompt of a run
RunItems == {<<"w", "i", "d", "g", "e", "t">>, <<"a", " ", "b">>}

\* texts typed at the condition prompt of a run
RunConditions ==
    {<<"n", "e", "w">>, <<"N", "E", "W">>, <<"a", "l", "l">>, <<"U", "s", "e", "d">>, <<"O", "P", "E", "N", "E", "D">>, <<"r", "e", "f", "u", "r", "b", "i", "s", "h", "e", "d">>, <<"m", "i", "n", "t">>, <<"n", "e", "w", "s">>, <<"n", "e", "w", " ">>, <<>>}

\* queries handed to _construct_url alone
QueryAlphabet == {"a", " ", "&", "%", "+"}
Queries ==
    SeqsUpTo(QueryAlphabet, MaxQuery)
        \cup {<<"w", "i", "d", "g", "e", "t">>, <<"%", "2", "0">>, <<"&", "L", "H", "_", "I", "t", "e", "m", "C", "o", "n", "d", "i", "t", "i", "o", "n", "=", "3", "0", "0", "0">>, <<"a", ".", "d", "e">>, <<"a", "=", "b", " ", "c", "#", "d">>}

\* country and condition arguments handed to _construct_url alone
CountryArgs == {COUNTRY_DICT[i][1] : i \in 1..Len(COUNTRY_DICT)} \cup {<<"x", "x">>}
ConditionArgs == {CONDITION_DICT[i][1] : i \in 1..Len(CONDITION_DICT)} \cup {<<"m", "i", "n", "t">>}

\* raw texts handed to _parse_raw_price alone
TextAlphabet == {"0", "2", "5", ",", ".", "$"}
Texts ==
    SeqsUpTo(TextAlphabet, MaxText)
        \cup {<<"$", "1", "2", ".", "5", "0">>, <<"$", "8", ",", "9", "9">>, <<"F", "r", "e", "e">>, <<"1", ",", "2", "3", "4", ".", "5", "6">>, <<"1", "2", "3", "4", ",", "5", "6">>, <<"E", "U", "R", " ", "7", ",", "5", " ", "+", " ", "2">>}

\* lists handed to _average alone
NumberPool == {VNone, Zero, Num(5, 1), Num(25, 2), Num(899, 100)}
NumberLists == SeqsUpTo(NumberPool, MaxList)

\* documents
ElementClasses == {PriceClass, ShippingClass, <<"s-item__shipping">>}
ElementTexts == {<<"$", "1", "2", ".", "5", "0">>, <<"$", "8", ",", "9", "9">>, <<>>, <<"F", "r", "e", "e">>, <<"$", "5", ".", "0", "0">>, <<" ", " ">>, <<" ", "7", " ">>}
Elements == [class : ElementClasses, text : ElementTexts]
Documents(n) == SeqsUpTo(Elements, n)

\* the exceptions urlopen raises
FetchErrors == {"URLError", "HTTPError"}

-----------------------------------------------------------------------------
(* A run of the script: __main__ calling get_item_info.                    *)

Init ==
    /\ pc = "input"
    /\ stdin \in {<<i, c>> : i \in RunItems, c \in RunConditions}
    /\ item_name = Unset /\ condition = Unset /\ country = Unset
    /\ url = Unset /\ requests = 0 /\ soup = Unset /\ data = Unset
    /\ result = Unset /\ stdout = <<>> /\ error = Unset
    /\ string = Unset /\ parsed_price = Unset /\ number_list = Unset /\ mean = Unset

\* lines 44-46: the two prompts and the default country
ReadInput ==
    /\ pc = "input"
    /\ item_name' = Some(stdin[1])
    /\ condition' = Some(Lower(stdin[2]))
    /\ country' = Some(<<"u", "s">>)
    /\ pc' = "validate"
    /\ UNCHANGED <<stdin, url, requests, soup, data, result, stdout, error,
                   string, parsed_price, number_list, mean>>

\* the message of the ValueError of line 49
InvalidConditionMessage ==
    <<"C", "o", "n", "d", "i", "t", "i", "o", "n", " ", "n", "o", "t", " ", "s", "u", "p", "p", "o", "r", "t", "e", "d", ",", " ", "p", "l", "e", "a", "s", "e", " ", "u", "s", "e", " ", "o", "n", "e", " ", "o", "f", " ", "t", "h", "e", " ", "f", "o", "l", "l", "o", "w", "i", "n", "g", ":", " ">>
        \o Join(Keys(CONDITION_DICT), <<",", " ">>)

\* lines 48-49
Validate ==
    /\ pc = "validate"
    /\ IF ~HasKey(CONDITION_DICT, condition[1])
       THEN /\ error' = Some([type |-> "ValueError", arg |-> InvalidConditionMessage])
            /\ pc' = "failed"
       ELSE /\ error' = error
            /\ pc' = "construct"
    /\ UNCHANGED <<stdin, item_name, condition, country, url, requests, soup, data,
                   result, stdout, string, parsed_price, number_list, mean>>

\* line 52
ConstructUrl ==
    /\ pc = "construct"
    /\ LET r == construct_url(item_name[1], country[1], condition[1])
       IN  IF r.exc = Unset
           THEN url' = r.value /\ error' = error /\ pc' = "fetch"
           ELSE url' = url /\ error' = r.exc /\ pc' = "failed"
    /\ UNCHANGED <<stdin, item_name, condition, country, requests, soup, data,
                   result, stdout, string, parsed_price, number_list, mean>>

\* lines 54, 92-93: urlopen answers and the body is parsed
GetHtml ==
    /\ pc = "fetch"
    /\ requests' = requests + 1
    /\ \E doc \in Documents(MaxRunElems) : soup' = Some(doc)
    /\ pc' = "parse"
    /\ UNCHANGED <<stdin, item_name, condition, country, url, data, result, stdout,
                   error, string, parsed_price, number_list, mean>>

\* Faulty variant of GetHtmlFails: the request is made again.
GetHtmlFailsAndRetries ==
    /\ pc = "fetch"
    /\ requests' = requests + 1
    /\ pc' = "fetch"
    /\ UNCHANGED <<stdin, item_name, condition, country, url, soup, data, result,
                   stdout, error, string, parsed_price, number_list, mean>>

\* Faulty variant of GetHtmlFails: the exception is caught and the run goes on
\* with no prices.
GetHtmlFailsAndGoesOn ==
    /\ pc = "fetch"
    /\ requests' = requests + 1
    /\ data' = Some([price_list |-> <<>>, shipping_list |-> <<>>])
    /\ pc' = "aggregate"
    /\ UNCHANGED <<stdin, item_name, condition, country, url, soup, result,
                   stdout, error, string, parsed_price, number_list, mean>>

\* lines 54, 92: urlopen raises, and nothing catches it
GetHtmlFails ==
    /\ pc = "fetch"
    /\ requests' = requests + 1
    /\ \E e \in FetchErrors : error' = Some([type |-> e, arg |-> url[1]])
    /\ pc' = "failed"
    /\ UNCHANGED <<stdin, item_name, condition, country, url, soup, data, result,
                   stdout, string, parsed_price, number_list, mean>>

\* line 57
ParsePrices ==
    /\ pc = "parse"
    /\ data' = Some(parse_prices(soup[1]))
    /\ pc' = "aggregate"
    /\ UNCHANGED <<stdin, item_name, condition, country, url, requests, soup, result,
                   stdout, error, string, parsed_price, number_list, mean>>

\* lines 60-64
Aggregate ==
    /\ pc = "aggregate"
    /\ \E r \in ItemInfo(data[1]) : result' = Some(r)
    /\ pc' = "print"
    /\ UNCHANGED <<stdin, item_name, condition, country, url, requests, soup, data,
                   stdout, error, string, parsed_price, number_list, mean>>

\* lines 144-145
PrintItemInfo ==
    /\ pc = "print"
    /\ stdout' = Append(stdout, result[1])
    /\ pc' = "done"
    /\ UNCHANGED <<stdin, item_name, condition, country, url, requests, soup, data,
                   result, error, string, parsed_price, number_list, mean>>

Next ==
    \/ ReadInput
    \/ Validate
    \/ ConstructUrl
    \/ GetHtml
    \/ GetHtmlFails
    \/ ParsePrices
    \/ Aggregate
    \/ PrintItemInfo

Spec == Init /\ [][Next]_vars

-----------------------------------------------------------------------------
(* One call of _construct_url.                                             *)

InitUrl ==
    /\ pc = "call"
    /\ item_name \in {Some(q) : q \in Queries}
    /\ country \in {Some(c) : c \in CountryArgs}
    /\ condition \in {Some(c) : c \in ConditionArgs}
    /\ stdin = Unset /\ url = Unset /\ requests = 0 /\ soup = Unset /\ data = Unset
    /\ result = Unset /\ stdout = <<>> /\ error = Unset
    /\ string = Unset /\ parsed_price = Unset /\ number_list = Unset /\ mean = Unset

CallConstructUrl ==
    /\ pc = "call"
    /\ LET r == construct_url(item_name[1], country[1], condition[1])
       IN  IF r.exc = Unset
           THEN url' = r.value /\ error' = error /\ pc' = "returned"
           ELSE url' = url /\ error' = r.exc /\ pc' = "raised"
    /\ UNCHANGED <<stdin, item_name, condition, country, requests, soup, data,
                   result, stdout, string, parsed_price, number_list, mean>>

SpecUrl == InitUrl /\ [][CallConstructUrl]_vars

-----------------------------------------------------------------------------
(* One call of _parse_raw_price.                                           *)

InitParse ==
    /\ pc = "call"
    /\ string \in {Some(t) : t \in Texts}
    /\ stdin = Unset /\ item_name = Unset /\ condition = Unset /\ country = Unset
    /\ url = Unset /\ requests = 0 /\ soup = Unset /\ data = Unset
    /\ result = Unset /\ stdout = <<>> /\ error = Unset
    /\ parsed_price = Unset /\ number_list = Unset /\ mean = Unset

CallParseRawPrice ==
    /\ pc = "call"
    /\ parsed_price' = Some(parse_raw_price(string[1]))
    /\ pc' = "returned"
    /\ UNCHANGED <<stdin, item_name, condition, country, url, requests, soup, data,
                   result, stdout, error, string, number_list, mean>>

SpecParse == InitParse /\ [][CallParseRawPrice]_vars

-----------------------------------------------------------------------------
(* One call of _average.                                                   *)

InitAverage ==
    /\ pc = "call"
    /\ number_list \in {Some(l) : l \in NumberLists}
    /\ stdin = Unset /\ item_name = Unset /\ condition = Unset /\ country = Unset
    /\ url = Unset /\ requests = 0 /\ soup = Unset /\ data = Unset
    /\ result = Unset /\ stdout = <<>> /\ error = Unset
    /\ string = Unset /\ parsed_price = Unset /\ mean = Unset

CallAverage ==
    /\ pc = "call"
    /\ mean' = Some(average(number_list[1]))
    /\ pc' = "returned"
    /\ UNCHANGED <<stdin, item_name, condition, country, url, requests, soup, data,
                   result, stdout, error, string, parsed_price, number_list>>

SpecAverage == InitAverage /\ [][CallAverage]_vars

-----------------------------------------------------------------------------
(* One call of _parse_prices.                                              *)

InitPrices ==
    /\ pc = "call"
    /\ soup \in {Some(doc) : doc \in Documents(MaxElems)}
    /\ stdin = Unset /\ item_name = Unset /\ condition = Unset /\ country = Unset
    /\ url = Unset /\ requests = 0 /\ data = Unset
    /\ result = Unset /\ stdout = <<>> /\ error = Unset
    /\ string = Unset /\ parsed_price = Unset /\ number_list = Unset /\ mean = Unset

CallParsePrices ==
    /\ pc = "call"
    /\ data' = Some(parse_prices(soup[1]))
    /\ pc' = "returned"
    /\ UNCHANGED <<stdin, item_name, condition, country, url, requests, soup,
                   result, stdout, error, string, parsed_price, number_list, mean>>

SpecPrices == InitPrices /\ [][CallParsePrices]_vars

-----------------------------------------------------------------------------
(* Properties of a run (Spec).                                             *)

\* the five condition names of the specification
FiveOptions == {<<"a", "l", "l">>, <<"n", "e", "w">>, <<"o", "p", "e", "n", "e", "d">>, <<"r", "e", "f", "u", "r", "b", "i", "s", "h", "e", "d">>, <<"u", "s", "e", "d">>}

\* raw is key, up to the case of its letters
CaseVariantOf(raw, key) ==
    /\ Len(raw) = Len(key)
    /\ \A i \in 1..Len(raw) :
          \/ raw[i] = key[i]
          \/ \E k \in 1..26 : UpperLetters[k] = raw[i] /\ LowerLetters[k] = key[i]

\* the condition typed is one of the five options, in any case
TypedConditionValid == \E key \in FiveOptions : CaseVariantOf(stdin[2], key)

IsError(types) == error # Unset /\ error[1].type \in types

\* C1: once the condition has been checked, a condition that is not a case
\* variant of all, new, opened, refurbished, used has ended the run with a
\* ValueError whose message lists exactly those five, with no URL built and no
\* request made; a case variant of one of the five never ends in that error.
C1_InvalidConditionRejectedFirst ==
    pc \notin {"input", "validate"} =>
        IF TypedConditionValid
        THEN ~IsError({"ValueError"})
        ELSE /\ pc = "failed"
             /\ error = Some([type |-> "ValueError",
                              arg |-> <<"C", "o", "n", "d", "i", "t", "i", "o", "n", " ", "n", "o", "t", " ", "s", "u", "p", "p", "o", "r", "t", "e", "d", ",", " ", "p", "l", "e", "a", "s", "e", " ", "u", "s", "e", " ", "o", "n", "e", " ", "o", "f", " ", "t", "h", "e", " ", "f", "o", "l", "l", "o", "w", "i", "n", "g", ":", " ", "a", "l", "l", ",", " ", "n", "e", "w", ",", " ", "o", "p", "e", "n", "e", "d", ",", " ", "r", "e", "f", "u", "r", "b", "i", "s", "h", "e", "d", ",", " ", "u", "s", "e", "d">>])
             /\ url = Unset
             /\ requests = 0

C1_Witness ==
    /\ pc = "failed"
    /\ stdin[2] = <<"m", "i", "n", "t">>
    /\ IsError({"ValueError"})

\* C2: a run makes at most one request: when it has ended it has made exactly
\* one if the condition was valid and none otherwise; a request that failed is
\* not made again and the run ends there.
C2_AtMostOneRequest ==
    /\ requests <= 1
    /\ pc \in {"done", "failed"} => requests = (IF TypedConditionValid THEN 1 ELSE 0)
    /\ IsError(FetchErrors) => pc = "failed" /\ requests = 1 /\ soup = Unset
    /\ pc = "failed" => ~ENABLED Next

C2_Witness ==
    /\ pc = "failed"
    /\ IsError(FetchErrors)
    /\ requests = 1

\* C3: the record is on standard output only in a run whose condition was
\* valid and whose fetch succeeded, after extraction and aggregation; a run
\* that ended in an error has printed nothing.
C3_NoPartialResults ==
    /\ stdout # <<>> =>
          /\ pc = "done"
          /\ error = Unset
          /\ TypedConditionValid
          /\ requests = 1
          /\ soup # Unset /\ data # Unset /\ result # Unset
          /\ stdout = <<result[1]>>
    /\ error # Unset => pc = "failed" /\ stdout = <<>> /\ result = Unset
    /\ pc = "done" => stdout # <<>>

C3_Witness ==
    /\ pc = "done"
    /\ Len(stdout) = 1
    /\ stdout[1] = result[1]

\* the text contains a digit
HasDigit(text) == \E i \in 1..Len(text) : text[i] \in {"0", "1", "2", "3", "4", "5", "6", "7", "8", "9"}

\* no element the two selectors match has a digit in its text
NothingParseable(doc) ==
    \A i \in 1..Len(doc) :
        ("s-item__price" \in {doc[i].class[k] : k \in 1..Len(doc[i].class)}
            \/ doc[i].class = <<"s-item__shipping", "s-item__logisticsCost">>)
        => ~HasDigit(doc[i].text)

\* C7: a fetched document never ends the run in an error, whatever it holds:
\* the run goes on to aggregate and print; when no matched text is parseable
\* the record printed is 0, 0, 0; and the total is always the rounded price
\* plus the rounded shipping.
C7_EmptyDocumentGivesZero ==
    /\ soup # Unset => error = Unset /\ pc \in {"parse", "aggregate", "print", "done"}
    /\ pc = "aggregate" => ItemInfo(data[1]) # {}
    /\ pc = "done" =>
          LET r == result[1] IN
          /\ r.total.n * (r.price.d * r.shipping.d)
                = r.total.d * (r.price.n * r.shipping.d + r.shipping.n * r.price.d)
          /\ ~r.price.isNone /\ ~r.shipping.isNone /\ ~r.total.isNone
          /\ NothingParseable(soup[1]) =>
                r = [price |-> [isNone |-> FALSE, n |-> 0, d |-> 1],
                     shipping |-> [isNone |-> FALSE, n |-> 0, d |-> 1],
                     total |-> [isNone |-> FALSE, n |-> 0, d |-> 1]]

C7_Witness ==
    /\ pc = "done"
    /\ soup[1] = <<[class |-> <<"s-item__price">>, text |-> <<"F", "r", "e", "e">>],
                   [class |-> <<"s-item__shipping">>, text |-> <<"$", "5", ".", "0", "0">>]>>
    /\ stdout[1].total.n = 0

-----------------------------------------------------------------------------
(* Properties of _average (SpecAverage).                                   *)

\* indices of the entries that are numbers
PresentIn(list) == {i \in 1..Len(list) : list[i] # VNone}

\* the sum, in hundredths, of the numbers among the first k entries (every
\* number of NumberPool is a whole number of hundredths)
RECURSIVE HundredthsUpTo(_, _)
HundredthsUpTo(list, k) ==
    IF k = 0 THEN 0
    ELSE HundredthsUpTo(list, k - 1)
             + (IF list[k] # VNone THEN (list[k].n * 100) \div list[k].d ELSE 0)

\* C4: _average returns the sum of the entries that are numbers divided by
\* how many they are, a 0 entry counted and an absent one not, and 0 when no
\* entry is a number; [0, absent, 5.00] gives 2.5 and [x] gives x.
C4_MeanOfPresentEntries ==
    pc = "returned" =>
        LET list == number_list[1]
            count == Cardinality(PresentIn(list))
            m == mean[1]
        IN  /\ m # VNone
            /\ count = 0 => m.n = 0 /\ m.d = 1
            /\ count > 0 => m.n * 100 * count = m.d * HundredthsUpTo(list, Len(list))
            /\ Len(list) = 1 /\ count = 1 => m = list[1]
            /\ list = <<[isNone |-> FALSE, n |-> 0, d |-> 1], VNone,
                        [isNone |-> FALSE, n |-> 5, d |-> 1]>>
                  => m = [isNone |-> FALSE, n |-> 5, d |-> 2]

C4_Witness ==
    /\ pc = "returned"
    /\ number_list[1] = <<Zero, VNone, Num(5, 1)>>
    /\ mean[1].n = 5 /\ mean[1].d = 2

-----------------------------------------------------------------------------
(* Properties of _parse_raw_price (SpecParse).                             *)

\* the text with every comma turned into a period
CommasToPeriods(text) == [i \in 1..Len(text) |-> IF text[i] = "," THEN "." ELSE text[i]]

AllDigits(text, from, to) == \A i \in from..to : HasDigit(<<text[i]>>)

\* the last index of the longest run of digits that starts at from
RunEnd(text, from) ==
    CHOOSE to \in from..Len(text) :
        /\ AllDigits(text, from, to)
        /\ to + 1 <= Len(text) => ~HasDigit(<<text[to + 1]>>)

\* the value is whole + frac / 10^places
IsDecimal(v, whole, frac, places) ==
    /\ v # VNone
    /\ v.n * Pow10(places) = v.d * (whole * Pow10(places) + frac)

\* C6: _parse_raw_price returns absent exactly when the text has no digit;
\* otherwise it returns the value of the first run of digits of the text with
\* its commas turned into periods, together with the period and the run of
\* digits that follow it, if any; so 1234,56 gives 1234.56 and 1,234.56 gives
\* a number.
C6_FirstNumericSubstring ==
    pc = "returned" =>
        LET text == CommasToPeriods(string[1])
            v == parsed_price[1]
        IN  /\ v = VNone <=> ~HasDigit(string[1])
            /\ HasDigit(string[1]) =>
                  LET i == CHOOSE k \in 1..Len(text) :
                               HasDigit(<<text[k]>>) /\ ~HasDigit(SubSeq(text, 1, k - 1))
                      j == RunEnd(text, i)
                  IN  IF j + 2 <= Len(text) /\ text[j + 1] = "." /\ HasDigit(<<text[j + 2]>>)
                      THEN LET k == RunEnd(text, j + 2)
                           IN  IsDecimal(v, IntOf(SubSeq(text, i, j)),
                                         IntOf(SubSeq(text, j + 2, k)), k - j - 1)
                      ELSE IsDecimal(v, IntOf(SubSeq(text, i, j)), 0, 0)
            /\ string[1] = <<"1", "2", "3", "4", ",", "5", "6">> => v = [isNone |-> FALSE, n |-> 30864, d |-> 25]
            /\ string[1] = <<"1", ",", "2", "3", "4", ".", "5", "6">> => v # VNone

C6_Witness ==
    /\ pc = "returned"
    /\ string[1] = <<"1", "2", "3", "4", ",", "5", "6">>
    /\ parsed_price[1].n * 100 = parsed_price[1].d * 123456

-----------------------------------------------------------------------------
(* Properties of _parse_prices (SpecPrices).                               *)

\* the elements of the document each selector matches
PriceElements(doc) ==
    {i \in 1..Len(doc) : "s-item__price" \in {doc[i].class[k] : k \in 1..Len(doc[i].class)}}
ShippingElements(doc) ==
    {i \in 1..Len(doc) : doc[i].class = <<"s-item__shipping", "s-item__logisticsCost">>}

\* the place of i among the indices of S, in order
Rank(S, i) == Cardinality({j \in S : j <= i})

\* C5: the price list holds, in document order, one entry for every price
\* text that is not empty once trimmed, and nothing for an empty one; the
\* shipping list holds one entry for every shipping text, exactly 0 for an
\* empty one, else its number, or absent when it has no digit.  The price
\* texts $12.50, $8,99 and "" give [12.50, 8.99].
C5_EmptyTextAsymmetry ==
    pc = "returned" =>
        LET doc == soup[1]
            kept == {i \in PriceElements(doc) : get_text(doc[i]) # <<>>}
            ship == ShippingElements(doc)
            prices == data[1].price_list
            shipping == data[1].shipping_list
        IN  /\ Len(prices) = Cardinality(kept)
            /\ \A i \in kept : prices[Rank(kept, i)] = parse_raw_price(get_text(doc[i]))
            /\ Len(shipping) = Cardinality(ship)
            /\ \A i \in ship :
                  LET s == shipping[Rank(ship, i)]
                  IN  IF get_text(doc[i]) = <<>>
                      THEN s = [isNone |-> FALSE, n |-> 0, d |-> 1]
                      ELSE /\ s = parse_raw_price(get_text(doc[i]))
                           /\ s = VNone <=> ~HasDigit(doc[i].text)
            /\ [k \in 1..Len(doc) |-> doc[k].text] = <<<<"$", "1", "2", ".", "5", "0">>, <<"$", "8", ",", "9", "9">>, <<>> >>
                  /\ Cardinality(PriceElements(doc)) = 3
                  => prices = <<[isNone |-> FALSE, n |-> 25, d |-> 2],
                                [isNone |-> FALSE, n |-> 899, d |-> 100]>>

C5_Witness ==
    /\ pc = "returned"
    /\ soup[1] = <<[class |-> PriceClass, text |-> <<"$", "1", "2", ".", "5", "0">>],
                   [class |-> PriceClass, text |-> <<"$", "8", ",", "9", "9">>],
                   [class |-> PriceClass, text |-> <<>>]>>
    /\ Len(data[1].price_list) = 2

-----------------------------------------------------------------------------
(* Properties of _construct_url (SpecUrl).                                 *)

\* p occurs in s
Contains(s, p) == \E i \in 1..(Len(s) + 1) : StartsAt(s, p, i)

Supported(d, key) == \E i \in 1..Len(d) : d[i][1] = key
SuffixOf(c) == COUNTRY_DICT[CHOOSE i \in 1..Len(COUNTRY_DICT) : COUNTRY_DICT[i][1] = c][2]

\* the host of the URL: what stands between https:// and the next slash
HostOf(u) ==
    LET rest == SubSeq(u, 9, Len(u))
        slash == CHOOSE i \in 1..Len(rest) : rest[i] = "/" /\ \A h \in 1..(i - 1) : rest[h] # "/"
    IN  SubSeq(rest, 1, slash - 1)

\* C8 as stated: the URL contains the suffix of its country and the suffix of
\* no other country of the table.
C8_ContainsNoOtherSuffix ==
    pc = "returned" =>
        /\ Contains(url[1], SuffixOf(country[1]))
        /\ \A i \in 1..Len(COUNTRY_DICT) :
              COUNTRY_DICT[i][1] # country[1] => ~Contains(url[1], COUNTRY_DICT[i][2])

\* C8, amended: for a supported country and condition the call returns a URL
\* that starts with https://, whose host is www.ebay followed by the suffix of
\* that country, and is www.ebay followed by the suffix of no other country.
C8_HostHasExactlyTheSuffix ==
    /\ pc # "call" /\ Supported(COUNTRY_DICT, country[1])
          /\ Supported(CONDITION_DICT, condition[1]) => pc = "returned"
    /\ pc = "returned" =>
          /\ SubSeq(url[1], 1, 8) = <<"h", "t", "t", "p", "s", ":", "/", "/">>
          /\ HostOf(url[1]) = <<"w", "w", "w", ".", "e", "b", "a", "y">> \o SuffixOf(country[1])
          /\ \A i \in 1..Len(COUNTRY_DICT) :
                COUNTRY_DICT[i][1] # country[1]
                    => HostOf(url[1]) # <<"w", "w", "w", ".", "e", "b", "a", "y">> \o COUNTRY_DICT[i][2]

\* the URL of the Australian site, which contains .com, the suffix of us
C8_Witness ==
    /\ pc = "returned"
    /\ country[1] = <<"a", "u">>
    /\ HostOf(url[1]) = <<"w", "w", "w", ".", "e", "b", "a", "y", ".", "c", "o", "m", ".", "a", "u">>
    /\ Contains(url[1], <<".", "c", "o", "m">>)

\* the filter of each condition, as the specification lists them
FilterOf(cond) ==
    CASE cond = <<"a", "l", "l">> -> <<>>
      [] cond = <<"n", "e", "w">> -> <<"&", "L", "H", "_", "I", "t", "e", "m", "C", "o", "n", "d", "i", "t", "i", "o", "n", "=", "1", "0", "0", "0">>
      [] cond = <<"o", "p", "e", "n", "e", "d">> -> <<"&", "L", "H", "_", "I", "t", "e", "m", "C", "o", "n", "d", "i", "t", "i", "o", "n", "=", "1", "5", "0", "0">>
      [] cond = <<"r", "e", "f", "u", "r", "b", "i", "s", "h", "e", "d">> -> <<"&", "L", "H", "_", "I", "t", "e", "m", "C", "o", "n", "d", "i", "t", "i", "o", "n", "=", "2", "5", "0", "0">>
      [] cond = <<"u", "s", "e", "d">> -> <<"&", "L", "H", "_", "I", "t", "e", "m", "C", "o", "n", "d", "i", "t", "i", "o", "n", "=", "3", "0", "0", "0">>

CountOf(text, c) == Cardinality({i \in 1..Len(text) : text[i] = c})

\* C9: the URL is https://www.ebay + suffix + /sch/i.html?_from=R40&_nkw= +
\* the encoded query + the filter of the condition, and nothing for "all";
\* the encoded query has a + for every space of the query and holds no space,
\* no %20 and none of & = # ?, so that the query adds no filter.
C9_UrlShape ==
    pc = "returned" =>
        LET u == url[1]
            head == <<"h", "t", "t", "p", "s", ":", "/", "/", "w", "w", "w", ".", "e", "b", "a", "y">> \o SuffixOf(country[1]) \o <<"/", "s", "c", "h", "/", "i", ".", "h", "t", "m", "l", "?", "_", "f", "r", "o", "m", "=", "R", "4", "0", "&", "_", "n", "k", "w", "=">>
            filter == FilterOf(condition[1])
            encoded == SubSeq(u, Len(head) + 1, Len(u) - Len(filter))
        IN  /\ Len(u) >= Len(head) + Len(filter)
            /\ SubSeq(u, 1, Len(head)) = head
            /\ SubSeq(u, Len(u) - Len(filter) + 1, Len(u)) = filter
            /\ \A i \in 1..Len(encoded) : encoded[i] \notin {" ", "&", "=", "#", "?"}
            /\ ~Contains(encoded, <<"%", "2", "0">>)
            /\ CountOf(encoded, "+") = CountOf(item_name[1], " ")
            /\ item_name[1] = <<"w", "i", "d", "g", "e", "t">> /\ condition[1] = <<"n", "e", "w">> /\ country[1] = <<"u", "s">>
                  => u = <<"h", "t", "t", "p", "s", ":", "/", "/", "w", "w", "w", ".", "e", "b", "a", "y", ".", "c", "o", "m", "/", "s", "c", "h", "/", "i", ".", "h", "t", "m", "l", "?", "_", "f", "r", "o", "m", "=", "R", "4", "0", "&", "_", "n", "k", "w", "=", "w", "i", "d", "g", "e", "t", "&", "L", "H", "_", "I", "t", "e", "m", "C", "o", "n", "d", "i", "t", "i", "o", "n", "=", "1", "0", "0", "0">>

\* a query that spells a filter, searched with the condition "all"
C9_Witness ==
    /\ pc = "returned"
    /\ item_name[1] = <<"&", "L", "H", "_", "I", "t", "e", "m", "C", "o", "n", "d", "i", "t", "i", "o", "n", "=", "3", "0", "0", "0">>
    /\ condition[1] = <<"a", "l", "l">>
    /\ ~Contains(url[1], <<"&", "L", "H", "_", "I", "t", "e", "m", "C", "o", "n", "d", "i", "t", "i", "o", "n">>)

\* C10 as stated: called with a condition outside the table (and a country
\* inside it), _construct_url fails with the invalid-input error, ValueError,
\* and not with the lookup failure, KeyError.
C10_BuilderRaisesInvalidInput ==
    pc # "call" /\ Supported(COUNTRY_DICT, country[1]) /\ ~Supported(CONDITION_DICT, condition[1])
        => pc = "raised" /\ url = Unset /\ IsError({"ValueError"})

\* C10, amended: _construct_url fails with the same lookup failure, KeyError,
\* for a condition outside its table as for a country outside its table (the
\* country is looked up first); then no URL is returned; and the call changes
\* nothing but its result.
C10_BuilderRaisesLookupFailure ==
    pc # "call" =>
        /\ ~Supported(COUNTRY_DICT, country[1])
              => pc = "raised" /\ error = Some([type |-> "KeyError", arg |-> country[1]])
        /\ Supported(COUNTRY_DICT, country[1]) /\ ~Supported(CONDITION_DICT, condition[1])
              => pc = "raised" /\ error = Some([type |-> "KeyError", arg |-> condition[1]])
        /\ pc = "raised" => url = Unset
        /\ pc = "returned" => error = Unset /\ url # Unset
        /\ requests = 0 /\ stdout = <<>> /\ soup = Unset /\ data = Unset /\ result = Unset

C10_Witness ==
    /\ pc = "raised"
    /\ country[1] = <<"u", "s">>
    /\ condition[1] = <<"m", "i", "n", "t">>
    /\ IsError({"KeyError"})

=============================================================================
